---- MODULE Spec2Model ----
(***************************************************************************)
(* Model of the osm_poi_downloader plugin (src/osm_poi_downloader).        *)
(*                                                                         *)
(* OverpassAPI.query_overpass and OverpassAPI.query_overpass_batch are     *)
(* modelled step by step: a call posts a request, the network answers the  *)
(* request in flight with one outcome, the handler of that outcome returns,*)
(* raises or sleeps, and the end of a sleep starts the next iteration of   *)
(* the retry loop.  The requests issued, the sleeps taken and the outcome  *)
(* of every attempt are kept as history so that the properties of a whole  *)
(* call can be stated at its end.                                          *)
(*                                                                         *)
(* The parser and the query builder of OverpassAPI are functions of their  *)
(* arguments (ParseSpec, BuildSpec).  The slots of OsmPoiDownloaderDialog  *)
(* run over the fetch functions (DialogSpec: as the user reaches them;     *)
(* SlotSpec: called in any order).  MapToolSelectArea handles the canvas   *)
(* events of a drag (ToolSpec).                                            *)
(***************************************************************************)
EXTENDS Integers, Sequences, FiniteSets, TLC

VARIABLES
    \* OverpassAPI.query_overpass, OverpassAPI.query_overpass_batch
    pc,           \* "idle" | "waiting" (request in flight) | "sleeping" | "done"
    fn,           \* "none" | "query_overpass" | "query_overpass_batch"
    retry_count,  \* the retry_count argument of query_overpass
    attempt,      \* the loop variable of `for attempt in range(retry_count)`
    requests,     \* number of requests.post calls issued by the call
    inflight,     \* number of requests posted and not yet answered
    sleeps,       \* the time.sleep calls: <<[after |-> attempt no., wait |-> s]>>
    outcomes,     \* what each request.post ended in, in order
    result,       \* how the call ended: nothing yet, a return or a raise
    \* OverpassAPI.parse_features, OverpassAPI.parse_batch_features
    api_response, \* the argument: [hasElements, elements]
    parse_op,     \* "none" | "parse_features" | "parse_batch_features"
    features,     \* the list parse_features returns
    categorized,  \* the dict parse_batch_features returns, in insertion order
    \* OverpassAPI.build_query, OverpassAPI.build_batch_query
    build_op,     \* "none" | "build_query" | "build_batch_query"
    build_args,   \* the arguments: [bbox, poi_types]
    query,        \* the query text returned, by its parts
    \* OsmPoiDownloaderDialog
    self_bbox,        \* self.bbox: <<>> for None, else (south, west, north, east)
    visible,          \* the dialog is shown (show / hide)
    map_tool_set,     \* the canvas's map tool is self.mapTool
    download_enabled, \* pushButton_download.isEnabled()
    export_enabled,   \* pushButton_export.isEnabled()
    progress_visible, \* progressBar.isVisible()
    progress_value,   \* progressBar.value()
    stats_visible,    \* groupBox_stats.isVisible()
    label_status,     \* label_status, by the kind of its text
    message,          \* the title of the last QMessageBox shown, "none" before any
    current_layers,   \* self.current_layers
    dpc,              \* "idle" | "running": download_pois is inside its try statement
    selected,         \* selected_categories of the run
    cat_index,        \* i of `for i, category in enumerate(selected_categories)`
    created_layers,   \* created_layers of the run
    project_layers,   \* the layers the run has added to the project
    run_requests,     \* requests.post calls of the run
    run_pauses,       \* time.sleep(2) calls of the run
    run_calls,        \* the OverpassAPI calls the run has come to, with their arguments
    run_results,      \* how each call that is over ended, and after how many requests
    layers_before,    \* self.current_layers at the start of the run
    \* MapToolSelectArea
    isDrawing,        \* self.isDrawing
    startPoint,       \* self.startPoint, PyNone before the first left press
    endPoint,         \* self.endPoint
    rubberBand,       \* self.rubberBand: "None", or the band "shown" or "reset"
    events,           \* the canvas events handled so far, in order
    emitted           \* the areaSelected emissions: the event's number and the rectangle

fetchVars == <<pc, fn, retry_count, attempt, requests, inflight, sleeps, outcomes, result>>
parseVars == <<api_response, parse_op, features, categorized>>
buildVars == <<build_op, build_args, query>>
uiVars ==
    <<self_bbox, visible, map_tool_set, download_enabled, export_enabled, progress_visible,
      progress_value, stats_visible, label_status, message, current_layers>>
runVars ==
    <<dpc, selected, cat_index, created_layers, project_layers, run_requests, run_pauses,
      run_calls, run_results, layers_before>>
dialogVars == <<uiVars, runVars>>
toolVars == <<isDrawing, startPoint, endPoint, rubberBand, events, emitted>>
vars == <<fetchVars, parseVars, buildVars, dialogVars, toolVars>>

\* what a step of the fetch functions, of the parser, of the query builder
\* leaves alone
otherThanFetch == <<parseVars, buildVars, dialogVars, toolVars>>
otherThanParse == <<fetchVars, buildVars, dialogVars, toolVars>>
otherThanBuild == <<fetchVars, parseVars, dialogVars, toolVars>>
otherThanDialog == <<parseVars, buildVars, toolVars>>
otherThanTool == <<fetchVars, parseVars, buildVars, dialogVars>>

\* No parser call is under way.
ParseIdle ==
    /\ api_response = [hasElements |-> FALSE, elements |-> <<>>]
    /\ parse_op = "none"
    /\ features = <<>>
    /\ categorized = <<>>

\* No query is being built.
BuildIdle ==
    /\ build_op = "none"
    /\ build_args = [bbox |-> <<>>, poi_types |-> <<>>]
    /\ query = [timeout |-> 0, statements |-> <<>>, out |-> ""]

\* No download run is under way.
RunIdle ==
    /\ dpc = "idle"
    /\ selected = <<>>
    /\ cat_index = 0
    /\ created_layers = <<>>
    /\ project_layers = <<>>
    /\ run_requests = 0
    /\ run_pauses = 0
    /\ run_calls = <<>>
    /\ run_results = <<>>
    /\ layers_before = <<>>

\* OsmPoiDownloaderDialog.__init__, the dialog then shown.  The state the
\* form gives the export button is left open.
DialogConstructed ==
    /\ self_bbox = <<>>
    /\ visible = TRUE
    /\ map_tool_set = FALSE
    /\ download_enabled = FALSE
    /\ export_enabled \in BOOLEAN
    /\ progress_visible = FALSE
    /\ progress_value = 0
    /\ stats_visible = FALSE
    /\ label_status = "Ready"
    /\ message = "none"
    /\ current_layers = <<>>
    /\ RunIdle

\* MapToolSelectArea.__init__; no canvas event has reached the tool.
ToolConstructed ==
    /\ isDrawing = FALSE
    /\ startPoint = "<None>"
    /\ endPoint = "<None>"
    /\ rubberBand = "None"
    /\ events = <<>>
    /\ emitted = <<>>

\* The dialog of the specifications that are not about it
DialogUnused ==
    /\ DialogConstructed
    /\ ToolConstructed
    /\ export_enabled = TRUE

----------------------------------------------------------------------------
(* Bounds of the model *)

\* retry_count is drawn from 0..MaxRetryCount
MaxRetryCount == 3

----------------------------------------------------------------------------
(* What one requests.post can end in *)

\* HTTP statuses a final response can carry: 2xx, a 3xx that is not followed,
\* client errors, 429, server errors, 504.
Statuses == {200, 300, 404, 429, 500, 504}

\* Response bodies: two distinct JSON documents and a body that is not JSON.
NotJson == "<html>"
JsonBodies == {"d1", "d2"}
Bodies == JsonBodies \cup {NotJson}

\* Exceptions requests.post itself raises.  "RequestException" stands for
\* any exception that is none of Timeout, HTTPError, ConnectionError and
\* JSONDecodeError (TooManyRedirects, ChunkedEncodingError, ...).
PostExceptions == {"ReadTimeout", "ConnectTimeout", "ConnectionError", "RequestException"}

\* status and body of an outcome that is an exception, not a response
NoStatus == 0
NoBody == "-"

Outcomes ==
    [exc : PostExceptions, status : {NoStatus}, body : {NoBody}]
    \cup [exc : {"None"}, status : Statuses, body : Bodies]

\* response.raise_for_status(): HTTPError for a 4xx or 5xx status, no
\* exception for any other status.
raise_for_status(status) == status >= 400 /\ status < 600

\* response.json(): JSONDecodeError when the body is not JSON (the exception
\* requests raises derives from json.JSONDecodeError, the class line 162 names).
json_raises(body) == body = NotJson

\* The classes an exception is an instance of, among those the except
\* clauses name (every exception is an Exception).  ConnectTimeout derives
\* from both ConnectionError and Timeout.
Classes(e) ==
    CASE e = "ReadTimeout" -> {"Timeout", "Exception"}
      [] e = "ConnectTimeout" -> {"ConnectionError", "Timeout", "Exception"}
      [] e = "ConnectionError" -> {"ConnectionError", "Exception"}
      [] e = "HTTPError" -> {"HTTPError", "Exception"}
      [] e = "JSONDecodeError" -> {"JSONDecodeError", "Exception"}
      [] OTHER -> {"Exception"}

\* The body of the try statement: requests.post, raise_for_status, json.
\* The exception that leaves it, "None" when it reaches `return data`.
TryBody(o) ==
    IF o.exc # "None" THEN o.exc
    ELSE IF raise_for_status(o.status) THEN "HTTPError"
    ELSE IF json_raises(o.body) THEN "JSONDecodeError"
    ELSE "None"

\* The first except clause, in the order written, that catches exception e.
RECURSIVE FirstClause(_, _)
FirstClause(clauses, e) ==
    IF Head(clauses) \in Classes(e) THEN Head(clauses)
    ELSE FirstClause(Tail(clauses), e)

----------------------------------------------------------------------------
(* The exceptions the two functions raise, by their messages *)

MsgTimeout == "Request timed out after multiple attempts. Try a smaller area."
MsgServerTimeout == "Server timeout after multiple attempts. The area may be too large or the server is overloaded."
MsgRateLimited == "Rate limited by API. Please wait a moment and try again."
MsgHttpError == "HTTP error from Overpass API: {e}"
MsgConnection == "Could not connect to Overpass API. Check your internet connection."
MsgInvalid == "Invalid response from Overpass API."
MsgGeneric == "Error querying Overpass API: {str(e)}"
MsgBatchTimeout == "Batch request timed out. Try selecting fewer categories or a smaller area."
MsgBatchServerTimeout == "Server timeout. Try selecting fewer categories or a smaller area."

NoResult == [tag |-> "none", msg |-> "", status |-> NoStatus, data |-> NoBody]
\* return data
Return(d) == [tag |-> "return", msg |-> "", status |-> NoStatus, data |-> d]
\* falling off the end of the function
ReturnNone == [tag |-> "return", msg |-> "", status |-> NoStatus, data |-> "None"]
\* raise Exception(msg); the HTTP-error message formats the HTTPError, whose
\* text holds the status, into the message.
Raise(m, s) == [tag |-> "raise", msg |-> m, status |-> s, data |-> NoBody]

\* What an iteration of the retry loop ends in.
Sleep(w) == [do |-> "sleep", wait |-> w, res |-> NoResult]
End(r) == [do |-> "end", wait |-> 0, res |-> r]

----------------------------------------------------------------------------
(* query_overpass *)

\* Variants of the definitions below, each with one plausible slip
TimeoutWaitZeroBased(a) == a * 2
TimeoutWaitFixed(a) == 2
ServerTimeoutWaitAsTimeout(a) == (a + 1) * 2
RateLimitWaitAsServerTimeout(a) == (a + 1) * 3
MoreAttemptsOffByOne(a, n) == a < n
MoreAttemptsAlways(a, n) == TRUE
InRangeInclusive(a, n) == a <= n

\* wait_time of the three retried failures; a is the 0-based loop variable
TimeoutWait(a) == (a + 1) * 2
ServerTimeoutWait(a) == (a + 1) * 3
RateLimitWait(a) == (a + 1) * 5

\* `for attempt in range(retry_count)`: a is a value of the range
InRange(a, n) == a < n

\* `if attempt < retry_count - 1`
MoreAttempts(a, n) == a < n - 1

\* except requests.exceptions.Timeout
OnTimeout(a, n) ==
    IF MoreAttempts(a, n) THEN Sleep(TimeoutWait(a))
    ELSE End(Raise(MsgTimeout, NoStatus))

\* Variant: 429 handled by the branch of 504
OnHTTPErrorOneBranch(status, a, n) ==
    IF status \in {504, 429}
    THEN IF MoreAttempts(a, n) THEN Sleep(ServerTimeoutWait(a))
         ELSE End(Raise(MsgServerTimeout, NoStatus))
    ELSE End(Raise(MsgHttpError, status))

\* except requests.exceptions.HTTPError as e
OnHTTPError(status, a, n) ==
    IF status = 504
    THEN IF MoreAttempts(a, n) THEN Sleep(ServerTimeoutWait(a))
         ELSE End(Raise(MsgServerTimeout, NoStatus))
    ELSE IF status = 429
    THEN IF MoreAttempts(a, n) THEN Sleep(RateLimitWait(a))
         ELSE End(Raise(MsgRateLimited, NoStatus))
    ELSE End(Raise(MsgHttpError, status))

\* Variants: the ConnectionError clause, the JSONDecodeError clause missing
ExceptClausesNoConnection == <<"Timeout", "HTTPError", "JSONDecodeError", "Exception">>
ExceptClausesNoJson == <<"Timeout", "HTTPError", "ConnectionError", "Exception">>

\* The except clauses of query_overpass, in the order written.
ExceptClauses == <<"Timeout", "HTTPError", "ConnectionError", "JSONDecodeError", "Exception">>

\* One iteration of the loop on the outcome o of its request.
AttemptStep(o, a, n) ==
    LET e == TryBody(o) IN
    IF e = "None" THEN End(Return(o.body))
    ELSE LET clause == FirstClause(ExceptClauses, e) IN
         CASE clause = "Timeout" -> OnTimeout(a, n)
           [] clause = "HTTPError" -> OnHTTPError(o.status, a, n)
           [] clause = "ConnectionError" -> End(Raise(MsgConnection, NoStatus))
           [] clause = "JSONDecodeError" -> End(Raise(MsgInvalid, NoStatus))
           [] OTHER -> End(Raise(MsgGeneric, NoStatus))

\* No fetch call is under way.
FetchIdle ==
    /\ pc = "idle"
    /\ fn = "none"
    /\ retry_count = 0
    /\ attempt = 0
    /\ requests = 0
    /\ inflight = 0
    /\ sleeps = <<>>
    /\ outcomes = <<>>
    /\ result = NoResult

Init ==
    /\ DialogUnused
    /\ FetchIdle
    /\ ParseIdle
    /\ BuildIdle

\* The call: with range(retry_count) empty the loop body never runs and the
\* function falls off its end (returns None); otherwise the first iteration
\* posts the first request.
QueryOverpass(n) ==
    /\ pc = "idle"
    /\ fn' = "query_overpass"
    /\ retry_count' = n
    /\ attempt' = 0
    /\ IF InRange(0, n)
       THEN /\ requests' = requests + 1
            /\ inflight' = inflight + 1
            /\ pc' = "waiting"
            /\ result' = result
       ELSE /\ pc' = "done"
            /\ result' = ReturnNone
            /\ UNCHANGED <<requests, inflight>>
    /\ UNCHANGED <<sleeps, outcomes>>
    /\ UNCHANGED otherThanFetch

\* The request in flight ends in outcome o and iteration `attempt` handles it.
AttemptOutcome(o) ==
    /\ pc = "waiting"
    /\ fn = "query_overpass"
    /\ inflight' = inflight - 1
    /\ outcomes' = Append(outcomes, o)
    /\ LET step == AttemptStep(o, attempt, retry_count) IN
         IF step.do = "sleep"
         THEN /\ sleeps' = Append(sleeps, [after |-> attempt + 1, wait |-> step.wait])
              /\ pc' = "sleeping"
              /\ result' = result
         ELSE /\ pc' = "done"
              /\ result' = step.res
              /\ sleeps' = sleeps
    /\ UNCHANGED <<fn, retry_count, attempt, requests>>
    /\ UNCHANGED otherThanFetch

\* time.sleep returns; the loop takes its next value and posts again.  An
\* exhausted range ends the loop and the function returns None.
SleepDone ==
    /\ pc = "sleeping"
    /\ attempt' = attempt + 1
    /\ IF InRange(attempt + 1, retry_count)
       THEN /\ requests' = requests + 1
            /\ inflight' = inflight + 1
            /\ pc' = "waiting"
            /\ result' = result
       ELSE /\ pc' = "done"
            /\ result' = ReturnNone
            /\ UNCHANGED <<requests, inflight>>
    /\ UNCHANGED <<fn, retry_count, sleeps, outcomes>>
    /\ UNCHANGED otherThanFetch

----------------------------------------------------------------------------
(* query_overpass_batch *)

\* The except clauses of query_overpass_batch, in the order written.
BatchExceptClauses == <<"Timeout", "ConnectionError", "HTTPError", "JSONDecodeError", "Exception">>

\* except requests.exceptions.HTTPError as e, of query_overpass_batch
BatchOnHTTPError(status) ==
    IF status = 504 THEN Raise(MsgBatchServerTimeout, NoStatus)
    ELSE Raise(MsgHttpError, status)

\* The try statement of query_overpass_batch on the outcome o of its request.
BatchStep(o) ==
    LET e == TryBody(o) IN
    IF e = "None" THEN Return(o.body)
    ELSE LET clause == FirstClause(BatchExceptClauses, e) IN
         CASE clause = "Timeout" -> Raise(MsgBatchTimeout, NoStatus)
           [] clause = "ConnectionError" -> Raise(MsgConnection, NoStatus)
           [] clause = "HTTPError" -> BatchOnHTTPError(o.status)
           [] clause = "JSONDecodeError" -> Raise(MsgInvalid, NoStatus)
           [] OTHER -> Raise(MsgGeneric, NoStatus)

QueryOverpassBatch ==
    /\ pc = "idle"
    /\ fn' = "query_overpass_batch"
    /\ requests' = requests + 1
    /\ inflight' = inflight + 1
    /\ pc' = "waiting"
    /\ UNCHANGED <<retry_count, attempt, sleeps, outcomes, result>>
    /\ UNCHANGED otherThanFetch

BatchOutcome(o) ==
    /\ pc = "waiting"
    /\ fn = "query_overpass_batch"
    /\ inflight' = inflight - 1
    /\ outcomes' = Append(outcomes, o)
    /\ result' = BatchStep(o)
    /\ pc' = "done"
    /\ UNCHANGED <<fn, retry_count, attempt, requests, sleeps>>
    /\ UNCHANGED otherThanFetch

----------------------------------------------------------------------------

Next ==
    \/ \E n \in (-1)..MaxRetryCount : QueryOverpass(n)
    \/ \E o \in Outcomes : AttemptOutcome(o)
    \/ SleepDone
    \/ QueryOverpassBatch
    \/ \E o \in Outcomes : BatchOutcome(o)

Spec == Init /\ [][Next]_vars

\* The network answers every request (requests.post has a timeout) and
\* time.sleep returns, so a call that has started keeps taking steps.
FairSpec ==
    /\ Spec
    /\ WF_vars(\E o \in Outcomes : AttemptOutcome(o))
    /\ WF_vars(SleepDone)
    /\ WF_vars(\E o \in Outcomes : BatchOutcome(o))

----------------------------------------------------------------------------
(* parse_features: the response and its elements *)

\* Longest `elements` list of a response
MaxElements == 2

\* Python's None, also what dict.get returns for a missing key
PyNone == "<None>"

\* The tag keys of the model: the eight keys the type is derived from, and name
TagKeys ==
    {"amenity", "shop", "tourism", "railway", "man_made", "power", "landuse",
     "healthcare", "name"}

\* A tags dict: the value of each key, PyNone for a key it does not hold.
\* pairs is a set of <<key, value>> with distinct keys.
MakeTags(pairs) ==
    [k \in TagKeys |->
        IF \E p \in pairs : p[1] = k
        THEN (CHOOSE p \in pairs : p[1] = k)[2]
        ELSE PyNone]

\* the empty dict {}
EmptyTags == MakeTags({})

\* The tags the elements of the model carry: at most two of these pairs.  An
\* OSM tag value is any string, the empty string included.
TagPairs ==
    {<<"amenity", "school">>, <<"amenity", "fuel">>, <<"amenity", "cafe">>,
     <<"amenity", "">>, <<"shop", "supermarket">>, <<"tourism", "hotel">>,
     <<"railway", "station">>, <<"man_made", "works">>, <<"power", "plant">>,
     <<"landuse", "industrial">>, <<"healthcare", "clinic">>,
     <<"name", "Alpha">>}

TagDicts ==
    {MakeTags({p, q}) : <<p, q>> \in {pq \in TagPairs \X TagPairs :
                                        pq[1] = pq[2] \/ pq[1][1] # pq[2][1]}}
    \cup {EmptyTags}

\* An element of the response.  A key the element does not hold is PyNone
\* (type, lat, lon, the lat and lon of center) or is flagged absent
\* (center, tags, id).  Coordinates are written as their JSON text.
Element(type, lat, lon, hasCenter, clat, clon, hasTags, tags, hasId, id) ==
    [type |-> type, lat |-> lat, lon |-> lon,
     hasCenter |-> hasCenter, center |-> [lat |-> clat, lon |-> clon],
     hasTags |-> hasTags, tags |-> tags, hasId |-> hasId, id |-> id]

\* Elements whose coordinates the parser can determine, with every tags dict
LocatedElements ==
    {Element("node", "10", "20", FALSE, PyNone, PyNone, TRUE, t, TRUE, 7) : t \in TagDicts}
    \cup {Element("way", PyNone, PyNone, TRUE, "1", "2", TRUE, t, TRUE, 8) :
            t \in {EmptyTags, MakeTags({<<"amenity", "school">>}),
                   MakeTags({<<"man_made", "works">>, <<"amenity", "school">>}),
                   MakeTags({<<"shop", "supermarket">>})}}
    \cup {Element("node", "0", "0", FALSE, PyNone, PyNone, FALSE, EmptyTags, FALSE, 0),
          Element("way", "10", "20", TRUE, "1", "2", FALSE, EmptyTags, TRUE, 8)}

\* Elements of another kind, or with a coordinate missing
OtherElements ==
    LET t == MakeTags({<<"amenity", "school">>}) IN
    {Element("relation", "10", "20", TRUE, "1", "2", TRUE, t, TRUE, 9),
     Element(PyNone, "10", "20", TRUE, "1", "2", TRUE, t, TRUE, 9),
     Element("node", PyNone, "20", TRUE, "1", "2", TRUE, t, TRUE, 7),
     Element("node", "10", PyNone, TRUE, "1", "2", TRUE, t, TRUE, 7),
     Element("way", "10", "20", FALSE, PyNone, PyNone, TRUE, t, TRUE, 8),
     Element("way", "10", "20", TRUE, PyNone, "2", TRUE, t, TRUE, 8),
     Element("way", "10", "20", TRUE, "1", PyNone, TRUE, t, TRUE, 8)}

Elements == LocatedElements \cup OtherElements

\* The responses parsed: without an `elements` key, and with every list of
\* at most MaxElements elements.
Responses ==
    {[hasElements |-> FALSE, elements |-> <<>>]}
    \cup {[hasElements |-> TRUE, elements |-> es] :
            es \in UNION {[1..k -> Elements] : k \in 0..MaxElements}}

----------------------------------------------------------------------------
(* parse_features *)

\* Variant: shop asked before amenity
TypeKeysShopFirst ==
    <<"shop", "amenity", "tourism", "railway", "man_made", "power", "landuse",
      "healthcare">>

\* The tag keys of the `or` chain that gives poi_type, in the order written
TypeKeys ==
    <<"amenity", "shop", "tourism", "railway", "man_made", "power", "landuse",
      "healthcare">>

\* Python truth of a tag value or None: None and the empty string are false
Truthy(v) == v # PyNone /\ v # ""

\* tags.get(k1) or tags.get(k2) or ... or 'unknown'
RECURSIVE OrChain(_, _)
OrChain(keys, tags) ==
    IF keys = <<>> THEN "unknown"
    ELSE IF Truthy(tags[Head(keys)]) THEN tags[Head(keys)]
    ELSE OrChain(Tail(keys), tags)

\* Variant: the default of the type given to the name
NameOfDefaultUnknown(tags) == IF tags["name"] = PyNone THEN "unknown" ELSE tags["name"]

\* tags.get('name', 'Unnamed')
NameOf(tags) == IF tags["name"] = PyNone THEN "Unnamed" ELSE tags["name"]

\* lat and lon of an element: a node's own, a way's from element.get('center', {});
\* `continue` for any other type.
Coordinates(el) ==
    IF el.type = "node" THEN [skip |-> FALSE, lat |-> el.lat, lon |-> el.lon]
    ELSE IF el.type = "way"
    THEN LET center == IF el.hasCenter THEN el.center
                       ELSE [lat |-> PyNone, lon |-> PyNone]
         IN [skip |-> FALSE, lat |-> center.lat, lon |-> center.lon]
    ELSE [skip |-> TRUE, lat |-> PyNone, lon |-> PyNone]

\* Variant: `and` for `or`
MissingCoordinateBoth(lat, lon) == lat = PyNone /\ lon = PyNone

\* `if lat is None or lon is None: continue`
MissingCoordinate(lat, lon) == lat = PyNone \/ lon = PyNone

\* The body of the loop over the elements: the features one element adds
ParseElement(el) ==
    LET c == Coordinates(el) IN
    IF c.skip \/ MissingCoordinate(c.lat, c.lon) THEN <<>>
    ELSE LET tags == IF el.hasTags THEN el.tags ELSE EmptyTags IN
         <<[lat |-> c.lat, lon |-> c.lon,
            name |-> NameOf(tags),
            type |-> OrChain(TypeKeys, tags),
            id |-> IF el.hasId THEN el.id ELSE 0,
            tags |-> tags]>>

RECURSIVE ParseElements(_)
ParseElements(es) ==
    IF es = <<>> THEN <<>>
    ELSE ParseElement(Head(es)) \o ParseElements(Tail(es))

\* Variant: no test of the `elements` key; the subscript then raises KeyError,
\* shown as the only entry of the result
parse_features_Unchecked(response) ==
    IF ~response.hasElements THEN <<"KeyError">>
    ELSE ParseElements(response.elements)

parse_features(response) ==
    IF ~response.hasElements THEN <<>>
    ELSE ParseElements(response.elements)

----------------------------------------------------------------------------
(* parse_batch_features *)

RISK_ZONES ==
    <<[name |-> "factory", key |-> "man_made", value |-> "works"],
      [name |-> "gas station", key |-> "amenity", value |-> "fuel"],
      [name |-> "power plant", key |-> "power", value |-> "plant"],
      [name |-> "power substation", key |-> "power", value |-> "substation"],
      [name |-> "railway station", key |-> "railway", value |-> "station"],
      [name |-> "railway halt", key |-> "railway", value |-> "halt"],
      [name |-> "waterworks", key |-> "man_made", value |-> "water_works"],
      [name |-> "wastewater plant", key |-> "man_made", value |-> "wastewater_plant"],
      [name |-> "industrial zone", key |-> "landuse", value |-> "industrial"]>>

VULNERABLE_POPULATIONS ==
    <<[name |-> "school", key |-> "amenity", value |-> "school"],
      [name |-> "kindergarten", key |-> "amenity", value |-> "kindergarten"],
      [name |-> "hospital", key |-> "amenity", value |-> "hospital"],
      [name |-> "clinic", key |-> "amenity", value |-> "clinic"],
      [name |-> "nursing home", key |-> "amenity", value |-> "nursing_home"],
      [name |-> "social facility", key |-> "amenity", value |-> "social_facility"],
      [name |-> "childcare", key |-> "amenity", value |-> "childcare"],
      [name |-> "community centre", key |-> "amenity", value |-> "community_centre"]>>

\* {**RISK_ZONES, **VULNERABLE_POPULATIONS}: a dict iterates in insertion order
CATEGORY_MAPPING == RISK_ZONES \o VULNERABLE_POPULATIONS

\* Variant: the loop without its break, the last matching entry wins
RECURSIVE FirstCategoryNoBreak(_, _)
FirstCategoryNoBreak(mapping, tags) ==
    IF mapping = <<>> THEN PyNone
    ELSE LET rest == FirstCategoryNoBreak(Tail(mapping), tags) IN
         IF rest # PyNone THEN rest
         ELSE IF tags[Head(mapping).key] = Head(mapping).value THEN Head(mapping).name
         ELSE PyNone

\* Variant: a feature no entry matches filed under its amenity value
RECURSIVE FirstCategoryAmenityFallback(_, _)
FirstCategoryAmenityFallback(mapping, tags) ==
    IF mapping = <<>> THEN tags["amenity"]
    ELSE IF tags[Head(mapping).key] = Head(mapping).value THEN Head(mapping).name
    ELSE FirstCategoryAmenityFallback(Tail(mapping), tags)

\* The inner loop: the name of the first entry whose pair the tags hold,
\* PyNone when the loop ends without a break.
RECURSIVE FirstCategory(_, _)
FirstCategory(mapping, tags) ==
    IF mapping = <<>> THEN PyNone
    ELSE IF tags[Head(mapping).key] = Head(mapping).value THEN Head(mapping).name
    ELSE FirstCategory(Tail(mapping), tags)

\* Variant: the list of the key set anew on every feature
AddToCategoryOverwrite(cats, category, feature) ==
    IF \E i \in DOMAIN cats : cats[i].category = category
    THEN [i \in DOMAIN cats |->
            IF cats[i].category = category
            THEN [cats[i] EXCEPT !.features = <<feature>>]
            ELSE cats[i]]
    ELSE Append(cats, [category |-> category, features |-> <<feature>>])

\* categorized[category].append(feature), the key created when it is new
AddToCategory(cats, category, feature) ==
    IF \E i \in DOMAIN cats : cats[i].category = category
    THEN [i \in DOMAIN cats |->
            IF cats[i].category = category
            THEN [cats[i] EXCEPT !.features = Append(@, feature)]
            ELSE cats[i]]
    ELSE Append(cats, [category |-> category, features |-> <<feature>>])

\* The loop over all_features, from the dict built so far
RECURSIVE Categorize(_, _)
Categorize(cats, fs) ==
    IF fs = <<>> THEN cats
    ELSE LET category == FirstCategory(CATEGORY_MAPPING, Head(fs).tags) IN
         Categorize(IF category # PyNone
                    THEN AddToCategory(cats, category, Head(fs))
                    ELSE cats,
                    Tail(fs))

parse_batch_features(response) == Categorize(<<>>, parse_features(response))

----------------------------------------------------------------------------
(* The parser applied to every response *)

ParseInit ==
    /\ DialogUnused
    /\ FetchIdle
    /\ BuildIdle
    /\ api_response \in Responses
    /\ parse_op = "none"
    /\ features = <<>>
    /\ categorized = <<>>

ParseFeatures ==
    /\ parse_op = "none"
    /\ parse_op' = "parse_features"
    /\ features' = parse_features(api_response)
    /\ UNCHANGED <<api_response, categorized>>
    /\ UNCHANGED otherThanParse

\* parse_batch_features; `features` keeps its all_features
ParseBatchFeatures ==
    /\ parse_op = "none"
    /\ parse_op' = "parse_batch_features"
    /\ features' = parse_features(api_response)
    /\ categorized' = parse_batch_features(api_response)
    /\ UNCHANGED api_response
    /\ UNCHANGED otherThanParse

ParseNext ==
    \/ ParseFeatures
    \/ ParseBatchFeatures

ParseSpec == ParseInit /\ [][ParseNext]_vars

----------------------------------------------------------------------------
(* build_query, build_batch_query *)

\* Longest poi_types list given to build_batch_query
MaxCategories == 2

\* str.lower() on the category strings of the model
LowerTable ==
    [t \in {"factory", "gas station", "power plant", "power substation",
            "railway station", "railway halt", "waterworks", "wastewater plant",
            "industrial zone", "school", "kindergarten", "hospital", "clinic",
            "nursing home", "social facility", "childcare", "community centre",
            "cafe", "atm"} |-> t]
    @@ [t \in {"Factory", "FACTORY"} |-> "factory"]
    @@ [t \in {"Gas Station", "GAS STATION"} |-> "gas station"]
    @@ [t \in {"Industrial Zone"} |-> "industrial zone"]
    @@ [t \in {"School", "SCHOOL"} |-> "school"]
    @@ [t \in {"Nursing Home"} |-> "nursing home"]
    @@ [t \in {"Cafe", "CAFE"} |-> "cafe"]
    @@ [t \in {"ATM"} |-> "atm"]

lower(t) == LowerTable[t]

\* The category strings a builder is called with
PoiTypes == DOMAIN LowerTable

\* The bounding boxes: every (south, west, north, east) over two values
BBoxes == [1..4 -> {10, 20}]

\* dict.get(key, default) on CATEGORY_MAPPING: the pair of the entry named key
RECURSIVE MappingGet(_, _, _)
MappingGet(mapping, key, default) ==
    IF mapping = <<>> THEN default
    ELSE IF Head(mapping).name = key THEN <<Head(mapping).key, Head(mapping).value>>
    ELSE MappingGet(Tail(mapping), key, default)

\* Variants: the key looked up as given; the default not lowercased
TagPairOfCaseSensitive(poi_type) ==
    MappingGet(CATEGORY_MAPPING, poi_type, <<"amenity", lower(poi_type)>>)
TagPairOfRawDefault(poi_type) ==
    MappingGet(CATEGORY_MAPPING, lower(poi_type), <<"amenity", poi_type>>)

\* CATEGORY_MAPPING.get(poi_type.lower(), ('amenity', poi_type.lower()))
TagPairOf(poi_type) ==
    MappingGet(CATEGORY_MAPPING, lower(poi_type), <<"amenity", lower(poi_type)>>)

\* One statement of the query: elem["key"="value"](south,west,north,east);
\* with south, west, north, east = bbox
Statement(elem, pair, bbox) ==
    [elem |-> elem, key |-> pair[1], value |-> pair[2],
     bounds |-> <<bbox[1], bbox[2], bbox[3], bbox[4]>>]

\* The node and the way statement of one category
StatementsOf(bbox, poi_type) ==
    <<Statement("node", TagPairOf(poi_type), bbox),
      Statement("way", TagPairOf(poi_type), bbox)>>

\* [out:json][timeout:25]; ( node...; way...; ); out center;
build_query(bbox, poi_type) ==
    [timeout |-> 25, statements |-> StatementsOf(bbox, poi_type), out |-> "center"]

\* the loop over poi_types appending to queries
RECURSIVE BatchStatements(_, _)
BatchStatements(bbox, poi_types) ==
    IF poi_types = <<>> THEN <<>>
    ELSE StatementsOf(bbox, Head(poi_types)) \o BatchStatements(bbox, Tail(poi_types))

\* [out:json][timeout:60]; ( the statements ); out center;
build_batch_query(bbox, poi_types) ==
    [timeout |-> 60, statements |-> BatchStatements(bbox, poi_types), out |-> "center"]

BuildQuery(bbox, poi_type) ==
    /\ build_op = "none"
    /\ build_op' = "build_query"
    /\ build_args' = [bbox |-> bbox, poi_types |-> <<poi_type>>]
    /\ query' = build_query(bbox, poi_type)
    /\ UNCHANGED otherThanBuild

BuildBatchQuery(bbox, poi_types) ==
    /\ build_op = "none"
    /\ build_op' = "build_batch_query"
    /\ build_args' = [bbox |-> bbox, poi_types |-> poi_types]
    /\ query' = build_batch_query(bbox, poi_types)
    /\ UNCHANGED otherThanBuild

BuildInit ==
    /\ DialogUnused
    /\ FetchIdle
    /\ ParseIdle
    /\ BuildIdle

BuildNext ==
    \/ \E bbox \in BBoxes, poi_type \in PoiTypes : BuildQuery(bbox, poi_type)
    \/ \E bbox \in BBoxes :
         \E poi_types \in UNION {[1..k -> PoiTypes] : k \in 1..MaxCategories} :
            BuildBatchQuery(bbox, poi_types)

BuildSpec == BuildInit /\ [][BuildNext]_vars

----------------------------------------------------------------------------
(* OsmPoiDownloaderDialog                                                  *)
(* (src/osm_poi_downloader/osm_poi_downloader_dialog.py)                   *)
(*                                                                         *)
(* The slots of the dialog run on the GUI thread, one at a time.           *)
(* download_pois blocks in the calls of OverpassAPI, whose steps are the   *)
(* steps of the fetch functions above: a run reaches from the click to the *)
(* end of the handler, through one call per category or one batch call.    *)
(***************************************************************************)

\* retry_count=3, the default download_pois leaves to query_overpass
DefaultRetryCount == 3

\* checkbox_mapping of get_selected_categories, in its order
CheckboxMapping ==
    <<"factory", "gas station", "power plant", "power substation", "railway station",
      "railway halt", "waterworks", "wastewater plant", "industrial zone",
      "school", "kindergarten", "hospital", "clinic", "nursing home",
      "social facility", "childcare", "community centre">>

\* The checkboxes the user ticks in the model; the others stay clear.
Checkboxes == {"factory", "gas station", "school", "hospital"}

\* The sets of ticked checkboxes at a click on Download: none, one, two,
\* three and four categories
CheckedSets ==
    {{}, {"school"}, {"gas station"}, {"factory", "school"}, {"school", "hospital"},
     {"factory", "gas station", "school"}, Checkboxes}

get_selected_categories(checked) == SelectSeq(CheckboxMapping, LAMBDA c : c \in checked)

\* rect_wgs84 of on_area_selected, as the bbox tuple made of it
DialogBBoxes == {<<10, 10, 20, 20>>, <<10, 20, 10, 20>>}

\* What the network does to a request of a run: one outcome of each kind
DialogOutcomes ==
    [exc : {"ReadTimeout", "ConnectionError"}, status : {NoStatus}, body : {NoBody}]
    \cup [exc : {"None"}, status : {200, 404, 429, 504}, body : {"d1"}]
    \cup {[exc |-> "None", status |-> 200, body |-> NotJson]}

\* The documents a JSON body of a run holds
DialogResponses ==
    LET node(t) == Element("node", "10", "20", FALSE, PyNone, PyNone, TRUE, t, TRUE, 7)
        way(t)  == Element("way", PyNone, PyNone, TRUE, "1", "2", TRUE, t, TRUE, 8)
        school  == MakeTags({<<"amenity", "school">>, <<"name", "Alpha">>})
        works   == MakeTags({<<"man_made", "works">>})
        cafe    == MakeTags({<<"amenity", "cafe">>})
    IN  {[hasElements |-> FALSE, elements |-> <<>>],
         [hasElements |-> TRUE, elements |-> <<>>],
         [hasElements |-> TRUE, elements |-> <<node(school)>>],
         [hasElements |-> TRUE, elements |-> <<node(cafe)>>],
         [hasElements |-> TRUE, elements |-> <<way(works), node(school)>>]}

\* Variant: the batch path from two categories on
UseBatchFromTwo(cats) == Len(cats) >= 2

\* use_batch
UseBatch(cats) == Len(cats) >= 3

\* A call of OverpassAPI with its arguments; query_overpass gets one category
CallOf(f, box, cats) == [fn |-> f, bbox |-> box, poi_types |-> cats]

\* How the fetch call that is over ended
ResultOf == [tag |-> result.tag, requests |-> requests]

\* `finally: self.reset_ui` names the method and does not call it.
ResetUiCalled == FALSE

\* reset_ui, where the finally clause runs it
reset_ui(visible_now, value_now, enabled_now) ==
    IF ResetUiCalled
    THEN [progress_visible |-> FALSE, progress_value |-> 0, download_enabled |-> TRUE]
    ELSE [progress_visible |-> visible_now, progress_value |-> value_now,
          download_enabled |-> enabled_now]

\* The fetch call a run has consumed is over.
FetchReset ==
    /\ pc' = "idle"
    /\ fn' = "none"
    /\ retry_count' = 0
    /\ attempt' = 0
    /\ requests' = 0
    /\ inflight' = 0
    /\ sleeps' = <<>>
    /\ outcomes' = <<>>
    /\ result' = NoResult

\* PoiLayerCreator.create_layer and the tuple appended to created_layers:
\* None for no features or for an invalid memory layer
create_layer(fs, category, valid) ==
    IF fs = <<>> \/ ~valid
    THEN <<>>
    ELSE <<[category |-> category, count |-> Len(fs)]>>

\* The locals of the last run are kept for the properties until the user
\* leaves the dialog for the map.
RunForgotten ==
    /\ dpc' = "idle"
    /\ selected' = <<>>
    /\ cat_index' = 0
    /\ created_layers' = <<>>
    /\ project_layers' = <<>>
    /\ run_requests' = 0
    /\ run_pauses' = 0
    /\ run_calls' = <<>>
    /\ run_results' = <<>>
    /\ layers_before' = <<>>

select_area ==
    /\ dpc = "idle"
    /\ label_status' = "Select area"
    /\ map_tool_set' = TRUE
    /\ visible' = FALSE
    /\ RunForgotten
    /\ UNCHANGED <<self_bbox, download_enabled, export_enabled, progress_visible,
                   progress_value, stats_visible, message, current_layers>>
    /\ UNCHANGED <<fetchVars, otherThanDialog>>

on_area_selected(rect) ==
    /\ dpc = "idle"
    /\ visible' = TRUE
    /\ map_tool_set' = FALSE
    /\ self_bbox' = rect
    /\ download_enabled' = TRUE
    /\ label_status' = "Area selected"
    /\ UNCHANGED <<export_enabled, progress_visible, progress_value, stats_visible,
                   message, current_layers>>
    /\ UNCHANGED <<runVars, fetchVars, otherThanDialog>>

\* Variant: the buttons disabled and the progress bar shown ahead of the
\* two checks
WarnAndReturnAfterSetup(title) ==
    /\ message' = title
    /\ download_enabled' = FALSE
    /\ export_enabled' = FALSE
    /\ stats_visible' = FALSE
    /\ progress_visible' = TRUE
    /\ progress_value' = 0
    /\ UNCHANGED <<label_status, runVars>>

\* QMessageBox.warning and the early return of download_pois
WarnAndReturn(title) ==
    /\ message' = title
    /\ UNCHANGED <<download_enabled, export_enabled, stats_visible,
                   progress_visible, progress_value, label_status, runVars>>

\* download_pois from its start to the first call of OverpassAPI, or to its
\* early return
download_pois(checked) ==
    /\ dpc = "idle"
    /\ LET cats == get_selected_categories(checked) IN
       IF self_bbox = <<>>
       THEN WarnAndReturn("No Area Selected")
       ELSE IF cats = <<>>
       THEN WarnAndReturn("No Categories Selected")
       ELSE /\ download_enabled' = FALSE
            /\ export_enabled' = FALSE
            /\ stats_visible' = FALSE
            /\ progress_visible' = TRUE
            /\ progress_value' = 10
            /\ label_status' = "Downloading"
            /\ dpc' = "running"
            /\ selected' = cats
            /\ cat_index' = 0
            /\ created_layers' = <<>>
            /\ project_layers' = <<>>
            /\ run_requests' = 0
            /\ run_pauses' = 0
            /\ run_calls' = <<IF UseBatch(cats)
                               THEN CallOf("query_overpass_batch", self_bbox, cats)
                               ELSE CallOf("query_overpass", self_bbox, <<cats[1]>>)>>
            /\ run_results' = <<>>
            /\ layers_before' = current_layers
            /\ UNCHANGED message
    /\ UNCHANGED <<self_bbox, visible, map_tool_set, current_layers>>
    /\ UNCHANGED <<fetchVars, otherThanDialog>>

\* The user's ways to the slots: a click on a button of the shown dialog,
\* enabled in the case of Download, and a rectangle drawn with the map tool
\* while it is set on the canvas
ClickSelectArea == visible /\ select_area
AreaSelected(rect) == map_tool_set /\ on_area_selected(rect)
ClickDownload(checked) == visible /\ download_enabled /\ download_pois(checked)

\* OverpassAPI.query_overpass(self.bbox, category)
CallQueryOverpass ==
    /\ dpc = "running"
    /\ ~UseBatch(selected)
    /\ QueryOverpass(DefaultRetryCount)

\* OverpassAPI.query_overpass_batch(self.bbox, selected_categories)
CallQueryOverpassBatch ==
    /\ dpc = "running"
    /\ UseBatch(selected)
    /\ QueryOverpassBatch

\* The except and finally clauses of download_pois
DownloadFailed ==
    LET ui == reset_ui(progress_visible, progress_value, download_enabled) IN
    /\ message' = "Error"
    /\ label_status' = "Error"
    /\ progress_visible' = ui.progress_visible
    /\ progress_value' = ui.progress_value
    /\ download_enabled' = ui.download_enabled
    /\ UNCHANGED <<export_enabled, stats_visible, current_layers>>
    /\ UNCHANGED <<created_layers, project_layers, cat_index, run_pauses, run_calls>>

\* Variant: self.current_layers assigned ahead of the test of created_layers
DownloadFinishedAssignFirst(created) ==
    LET ui == reset_ui(progress_visible, 100, download_enabled) IN
    /\ progress_visible' = ui.progress_visible
    /\ progress_value' = ui.progress_value
    /\ download_enabled' = ui.download_enabled
    /\ current_layers' = [k \in DOMAIN created |-> created[k].category]
    /\ IF created = <<>>
       THEN /\ message' = "No Results"
            /\ UNCHANGED <<export_enabled, stats_visible, label_status>>
       ELSE /\ export_enabled' = TRUE
            /\ stats_visible' = TRUE
            /\ label_status' = "Downloaded"
            /\ message' = "Success"

\* download_pois from setValue(100) to its end, with the layers created
DownloadFinished(created) ==
    LET ui == reset_ui(progress_visible, 100, download_enabled) IN
    /\ progress_visible' = ui.progress_visible
    /\ progress_value' = ui.progress_value
    /\ download_enabled' = ui.download_enabled
    /\ IF created = <<>>
       THEN /\ message' = "No Results"
            /\ UNCHANGED <<current_layers, export_enabled, stats_visible, label_status>>
       ELSE /\ current_layers' = [k \in DOMAIN created |-> created[k].category]
            /\ export_enabled' = TRUE
            /\ stats_visible' = TRUE
            /\ label_status' = "Downloaded"
            /\ message' = "Success"

\* download_pois from the end of a query_overpass call: the except clause,
\* or the rest of the iteration and then the next iteration up to its call
\* or the end of the handler
QueryOverpassReturned(response, valid) ==
    /\ dpc = "running"
    /\ pc = "done"
    /\ fn = "query_overpass"
    /\ FetchReset
    /\ run_requests' = run_requests + requests
    /\ run_results' = Append(run_results, ResultOf)
    /\ UNCHANGED <<self_bbox, visible, map_tool_set, selected, layers_before>>
    /\ UNCHANGED otherThanDialog
    /\ IF result.tag = "raise"
       THEN /\ DownloadFailed
            /\ dpc' = "idle"
       ELSE LET category == selected[cat_index + 1]
                layer == create_layer(parse_features(response), category, valid)
                created == created_layers \o layer
                progress_per_category == 80 \div Len(selected)
                current_progress == 10 + (cat_index + 1) * progress_per_category
            IN  /\ created_layers' = created
                /\ project_layers' = project_layers \o layer
                /\ IF cat_index + 1 < Len(selected)
                   THEN /\ cat_index' = cat_index + 1
                        /\ label_status' = "Downloading"
                        /\ progress_value' = current_progress
                        /\ run_pauses' = run_pauses + 1
                        /\ run_calls' = Append(run_calls,
                                CallOf("query_overpass", self_bbox, <<selected[cat_index + 2]>>))
                        /\ dpc' = "running"
                        /\ UNCHANGED <<download_enabled, export_enabled, progress_visible,
                                       stats_visible, message, current_layers>>
                   ELSE /\ DownloadFinished(created)
                        /\ dpc' = "idle"
                        /\ UNCHANGED <<cat_index, run_pauses, run_calls>>

\* The layers of the loop over categorized_features.items()
BatchLayers(cats, valid) ==
    LET made == SelectSeq([k \in 1..Len(cats) |-> k], LAMBDA k : k \in valid) IN
    [j \in 1..Len(made) |->
        [category |-> cats[made[j]].category, count |-> Len(cats[made[j]].features)]]

\* download_pois from the end of the query_overpass_batch call
QueryOverpassBatchReturned(response, valid) ==
    /\ dpc = "running"
    /\ pc = "done"
    /\ fn = "query_overpass_batch"
    /\ FetchReset
    /\ run_requests' = run_requests + requests
    /\ run_results' = Append(run_results, ResultOf)
    /\ dpc' = "idle"
    /\ UNCHANGED <<self_bbox, visible, map_tool_set, selected, layers_before>>
    /\ UNCHANGED otherThanDialog
    /\ IF result.tag = "raise"
       THEN DownloadFailed
       ELSE LET layers == BatchLayers(parse_batch_features(response), valid) IN
            /\ created_layers' = layers
            /\ project_layers' = layers
            /\ DownloadFinished(layers)
            /\ UNCHANGED <<cat_index, run_pauses, run_calls>>

\* How an export of layers that exist goes.  One layer (the only one, or the
\* one chosen of several): a dialog is cancelled, the format of the combo box
\* is none of the two, the file is written or not.  All of several layers:
\* every file is written or some are not.
ExportEnds ==
    {"cancelled", "invalid format", "exported", "failed", "all exported", "some failed"}

\* export_layer with _export_single_layer, _choose_and_export_layer and
\* _export_all_layers
export_layer(end) ==
    /\ dpc = "idle"
    /\ IF current_layers = <<>>
       THEN /\ message' = "No Layers"
            /\ UNCHANGED <<label_status, export_enabled>>
       ELSE CASE end = "cancelled" ->
                    UNCHANGED <<message, label_status, export_enabled>>
              [] end = "invalid format" ->
                    /\ message' = "Invalid Format"
                    /\ UNCHANGED <<label_status, export_enabled>>
              [] end = "exported" ->
                    /\ message' = "Export Successful"
                    /\ label_status' = "Exported"
                    /\ export_enabled' = TRUE
              [] end = "failed" ->
                    /\ message' = "Export Failed"
                    /\ label_status' = "Export failed"
                    /\ export_enabled' = TRUE
              [] end = "all exported" ->
                    /\ Len(current_layers) > 1
                    /\ message' = "Export Successful"
                    /\ label_status' = "Exported"
                    /\ export_enabled' = TRUE
              [] end = "some failed" ->
                    /\ Len(current_layers) > 1
                    /\ message' = "Export Completed with Errors"
                    /\ label_status' = "Exported"
                    /\ export_enabled' = TRUE
    /\ UNCHANGED <<self_bbox, visible, map_tool_set, download_enabled, progress_visible,
                   progress_value, stats_visible, current_layers>>
    /\ UNCHANGED <<runVars, fetchVars, otherThanDialog>>

\* a click on the enabled Export button
ClickExport(end) == visible /\ export_enabled /\ export_layer(end)

DialogInit ==
    /\ ToolConstructed
    /\ FetchIdle
    /\ ParseIdle
    /\ BuildIdle
    /\ DialogConstructed

DialogNext ==
    \/ ClickSelectArea
    \/ \E rect \in DialogBBoxes : AreaSelected(rect)
    \/ \E checked \in CheckedSets : ClickDownload(checked)
    \/ \E end \in ExportEnds : ClickExport(end)
    \/ CallQueryOverpass
    \/ CallQueryOverpassBatch
    \/ \E o \in DialogOutcomes : AttemptOutcome(o)
    \/ SleepDone
    \/ \E o \in DialogOutcomes : BatchOutcome(o)
    \/ \E response \in DialogResponses, valid \in BOOLEAN :
            QueryOverpassReturned(response, valid)
    \/ \E response \in DialogResponses, valid \in SUBSET (1..MaxElements) :
            QueryOverpassBatchReturned(response, valid)

DialogSpec == DialogInit /\ [][DialogNext]_vars

\* The slots called in any order, whatever the dialog shows and enables
SlotNext ==
    \/ select_area
    \/ \E rect \in DialogBBoxes : on_area_selected(rect)
    \/ \E checked \in CheckedSets : download_pois(checked)
    \/ CallQueryOverpass
    \/ CallQueryOverpassBatch
    \/ \E o \in DialogOutcomes : AttemptOutcome(o)
    \/ SleepDone
    \/ \E o \in DialogOutcomes : BatchOutcome(o)
    \/ \E response \in DialogResponses, valid \in BOOLEAN :
            QueryOverpassReturned(response, valid)
    \/ \E response \in DialogResponses, valid \in SUBSET (1..MaxElements) :
            QueryOverpassBatchReturned(response, valid)

SlotSpec == DialogInit /\ [][SlotNext]_vars

----------------------------------------------------------------------------
(* MapToolSelectArea (src/osm_poi_downloader/map_tool_select_area.py)       *)

\* The canvas events of a behaviour
MaxEvents == 4

\* event.button()
Buttons == {"Left", "Right"}

\* toMapCoordinates(event.pos()): the map point under the cursor
Points == {"p1", "p2"}

\* QgsRectangle(self.startPoint, self.endPoint), by its two corners
Rectangle(p, q) == [from |-> p, to |-> q]

\* Variant: the release of the left button completes a rectangle whether or
\* not one is being drawn
ReleaseCompletesUndrawn(button, drawing) == button = "Left"

\* event.button() == Qt.LeftButton and self.isDrawing
ReleaseCompletes(button, drawing) == button = "Left" /\ drawing

\* showRect: the band, when there is one, reset and shown with the rectangle
showRect(band, p, q) ==
    IF band # "None" /\ p # PyNone /\ q # PyNone THEN "shown" ELSE band

canvasPressEvent(button, point) ==
    /\ Len(events) < MaxEvents
    /\ events' = Append(events, [kind |-> "press", button |-> button, point |-> point])
    /\ IF button = "Left"
       THEN /\ startPoint' = point
            /\ endPoint' = point
            /\ isDrawing' = TRUE
            /\ rubberBand' = showRect(IF rubberBand = "None" THEN "reset" ELSE rubberBand,
                                      point, point)
       ELSE UNCHANGED <<startPoint, endPoint, isDrawing, rubberBand>>
    /\ UNCHANGED emitted
    /\ UNCHANGED otherThanTool

canvasMoveEvent(point) ==
    /\ Len(events) < MaxEvents
    /\ events' = Append(events, [kind |-> "move", button |-> "none", point |-> point])
    /\ IF isDrawing
       THEN /\ endPoint' = point
            /\ rubberBand' = showRect(rubberBand, startPoint, point)
       ELSE UNCHANGED <<endPoint, rubberBand>>
    /\ UNCHANGED <<startPoint, isDrawing, emitted>>
    /\ UNCHANGED otherThanTool

canvasReleaseEvent(button, point) ==
    /\ Len(events) < MaxEvents
    /\ events' = Append(events, [kind |-> "release", button |-> button, point |-> point])
    /\ IF ReleaseCompletes(button, isDrawing)
       THEN /\ endPoint' = point
            /\ isDrawing' = FALSE
            /\ emitted' = Append(emitted, [at |-> Len(events) + 1,
                                           rect |-> Rectangle(startPoint, point)])
            /\ rubberBand' = IF rubberBand # "None" THEN "reset" ELSE rubberBand
       ELSE UNCHANGED <<endPoint, isDrawing, emitted, rubberBand>>
    /\ UNCHANGED startPoint
    /\ UNCHANGED otherThanTool

ToolInit ==
    /\ FetchIdle
    /\ ParseIdle
    /\ BuildIdle
    /\ DialogUnused

ToolNext ==
    \/ \E button \in Buttons, point \in Points : canvasPressEvent(button, point)
    \/ \E point \in Points : canvasMoveEvent(point)
    \/ \E button \in Buttons, point \in Points : canvasReleaseEvent(button, point)

ToolSpec == ToolInit /\ [][ToolNext]_vars

----------------------------------------------------------------------------
(* Vocabulary of the properties *)

\* The error kind a raised message stands for.
ErrorKind(m) ==
    CASE m \in {MsgTimeout, MsgBatchTimeout} -> "Timeout"
      [] m \in {MsgServerTimeout, MsgBatchServerTimeout} -> "UpstreamOverloaded"
      [] m = MsgRateLimited -> "RateLimited"
      [] m = MsgHttpError -> "RemoteError"
      [] m = MsgConnection -> "ConnectionUnavailable"
      [] m = MsgInvalid -> "MalformedResponse"
      [] OTHER -> "Generic"

Fetching == fn = "query_overpass"
FetchDone == Fetching /\ pc = "done"
Batching == fn = "query_overpass_batch"
BatchDone == Batching /\ pc = "done"

Failed(kind) == result.tag = "raise" /\ ErrorKind(result.msg) = kind

\* a request timeout: the connection or the read timed out
IsTimeout(o) == o.exc \in {"ReadTimeout", "ConnectTimeout"}
IsStatus(o, s) == o.exc = "None" /\ o.status = s
Is2xx(o) == o.exc = "None" /\ o.status \in 200..299
IsSuccess(o) == Is2xx(o) /\ o.body \in JsonBodies

\* the waits of n attempts that all fail: factor * k after attempt k < n
BackoffSchedule(n, factor) == [k \in 1..(n - 1) |-> [after |-> k, wait |-> factor * k]]

RECURSIVE SumWaits(_)
SumWaits(s) == IF s = <<>> THEN 0 ELSE Head(s).wait + SumWaits(Tail(s))

\* 2*1 + 2*2 + ... + 2*m
RECURSIVE SumOfDoubles(_)
SumOfDoubles(m) == IF m <= 0 THEN 0 ELSE 2 * m + SumOfDoubles(m - 1)

----------------------------------------------------------------------------
(* Properties *)

\* C1: when every attempt of query_overpass with retry_count = N >= 1 times
\* out, exactly N requests are issued, the wait after failed attempt k is
\* 2*k seconds for k = 1..N-1, no wait follows attempt N, and the call fails
\* with the Timeout error.
C1_TimeoutExhausted ==
    (FetchDone /\ retry_count >= 1 /\ \A i \in DOMAIN outcomes : IsTimeout(outcomes[i]))
    => /\ requests = retry_count
       /\ Len(outcomes) = retry_count
       /\ sleeps = BackoffSchedule(retry_count, 2)
       /\ Failed("Timeout")

C1_Witness ==
    /\ FetchDone /\ retry_count = 3 /\ Len(outcomes) = 3
    /\ \A i \in DOMAIN outcomes : IsTimeout(outcomes[i])
    /\ Len(sleeps) = 2

\* C2: for every k in 1..retry_count, when attempts 1..k-1 time out and
\* attempt k succeeds, query_overpass returns attempt k's response, issues
\* exactly k requests, and has slept 2*1 + ... + 2*(k-1) seconds in total.
C2_SuccessAfterTimeouts ==
    \A k \in 1..retry_count :
        ( /\ FetchDone
          /\ Len(outcomes) >= k
          /\ \A i \in 1..(k - 1) : IsTimeout(outcomes[i])
          /\ IsSuccess(outcomes[k]) )
        => /\ result = Return(outcomes[k].body)
           /\ requests = k
           /\ Len(outcomes) = k
           /\ Len(sleeps) = k - 1
           /\ SumWaits(sleeps) = SumOfDoubles(k - 1)

C2_Witness ==
    /\ FetchDone /\ retry_count = 3 /\ Len(outcomes) = 3
    /\ IsTimeout(outcomes[1]) /\ IsTimeout(outcomes[2]) /\ IsSuccess(outcomes[3])
    /\ result = Return(outcomes[3].body)
    /\ SumWaits(sleeps) = 6

\* C3: when every attempt of query_overpass with retry_count = N >= 1
\* receives HTTP 504, exactly N requests are issued, the wait after failed
\* attempt k is 3*k seconds for k = 1..N-1, and the call fails on attempt N
\* with the UpstreamOverloaded error (not RemoteError, not a generic error).
C3_ServerTimeoutExhausted ==
    (FetchDone /\ retry_count >= 1 /\ \A i \in DOMAIN outcomes : IsStatus(outcomes[i], 504))
    => /\ requests = retry_count
       /\ Len(outcomes) = retry_count
       /\ sleeps = BackoffSchedule(retry_count, 3)
       /\ Failed("UpstreamOverloaded")
       /\ result.msg = MsgServerTimeout

C3_Witness ==
    /\ FetchDone /\ retry_count = 3 /\ Len(outcomes) = 3
    /\ \A i \in DOMAIN outcomes : IsStatus(outcomes[i], 504)
    /\ Len(sleeps) = 2

\* C4: when every attempt of query_overpass with retry_count = N >= 1
\* receives HTTP 429, exactly N requests are issued, the wait after failed
\* attempt k is 5*k seconds for k = 1..N-1, and the call fails with
\* RateLimited, never with a generic error or RemoteError.
C4_RateLimitExhausted ==
    (FetchDone /\ retry_count >= 1 /\ \A i \in DOMAIN outcomes : IsStatus(outcomes[i], 429))
    => /\ requests = retry_count
       /\ Len(outcomes) = retry_count
       /\ sleeps = BackoffSchedule(retry_count, 5)
       /\ Failed("RateLimited")

C4_Witness ==
    /\ FetchDone /\ retry_count = 3 /\ Len(outcomes) = 3
    /\ \A i \in DOMAIN outcomes : IsStatus(outcomes[i], 429)
    /\ Len(sleeps) = 2

\* C5: when any attempt of query_overpass receives a non-2xx status other
\* than 504 and 429, the call fails at that attempt with RemoteError carrying
\* the status: no sleep and no further request follow.
C5_OtherStatusIsRemoteError ==
    \A k \in DOMAIN outcomes :
        ( /\ Fetching
          /\ outcomes[k].exc = "None"
          /\ outcomes[k].status \notin 200..299
          /\ outcomes[k].status \notin {504, 429} )
        => /\ pc = "done"
           /\ Failed("RemoteError")
           /\ result.status = outcomes[k].status
           /\ Len(outcomes) = k
           /\ requests = k
           /\ Len(sleeps) = k - 1

\* C6: when any attempt of query_overpass hits a connection failure (DNS
\* failure, connection refused), the call fails at that attempt with
\* ConnectionUnavailable: no retry, no sleep, the remaining attempts unused.
C6_ConnectionFailureIsFinal ==
    \A k \in DOMAIN outcomes :
        (Fetching /\ outcomes[k].exc = "ConnectionError")
        => /\ pc = "done"
           /\ Failed("ConnectionUnavailable")
           /\ Len(outcomes) = k
           /\ requests = k
           /\ Len(sleeps) = k - 1

C6_Witness ==
    /\ FetchDone /\ retry_count = 3 /\ Len(outcomes) = 2
    /\ outcomes[2].exc = "ConnectionError"
    /\ requests = 2 /\ Len(sleeps) = 1

\* C7: when an attempt of query_overpass or the request of
\* query_overpass_batch receives a 2xx response whose body is not valid JSON,
\* the call fails with MalformedResponse at that attempt, with no retry and
\* no further request.
C7_MalformedBodyIsFinal ==
    \A k \in DOMAIN outcomes :
        (Is2xx(outcomes[k]) /\ outcomes[k].body = NotJson)
        => /\ pc = "done"
           /\ Failed("MalformedResponse")
           /\ Len(outcomes) = k
           /\ requests = k
           /\ Len(sleeps) = k - 1

C7_Witness ==
    /\ FetchDone /\ retry_count = 3 /\ Len(outcomes) = 2
    /\ Is2xx(outcomes[2]) /\ outcomes[2].body = NotJson
    /\ requests = 2

\* C8: query_overpass_batch issues exactly one request and never sleeps; a
\* timeout, an HTTP error status, a connection failure or a malformed body
\* each fail the call at once with the corresponding error kind (Timeout;
\* UpstreamOverloaded for 504, RateLimited for 429, RemoteError for any
\* other error status; ConnectionUnavailable; MalformedResponse).
C8_BatchErrorKinds ==
    Batching =>
        /\ requests = 1
        /\ sleeps = <<>>
        /\ Len(outcomes) <= 1
        /\ Len(outcomes) = 1 =>
             LET o == outcomes[1] IN
             /\ pc = "done"
             /\ IsTimeout(o) => Failed("Timeout")
             /\ o.exc = "ConnectionError" => Failed("ConnectionUnavailable")
             /\ IsStatus(o, 504) => Failed("UpstreamOverloaded")
             /\ IsStatus(o, 429) => Failed("RateLimited")
             /\ (o.exc = "None" /\ o.status >= 400 /\ o.status \notin {504, 429})
                  => (Failed("RemoteError") /\ result.status = o.status)
             /\ (Is2xx(o) /\ o.body = NotJson) => Failed("MalformedResponse")

\* What the call is to fail with on a failed attempt o.
ExpectedKind(o) ==
    CASE IsTimeout(o) -> "Timeout"
      [] o.exc = "ConnectionError" -> "ConnectionUnavailable"
      [] o.exc = "RequestException" -> "Generic"
      [] IsStatus(o, 504) -> "UpstreamOverloaded"
      [] IsStatus(o, 429) -> "RateLimited"
      [] o.exc = "None" /\ o.status >= 400 -> "RemoteError"
      [] OTHER -> "MalformedResponse"

\* attempt o failed: an exception, an error status or a body that is not JSON
IsFailure(o) == o.exc # "None" \/ o.status >= 400 \/ o.body = NotJson

SixKinds ==
    {"Timeout", "UpstreamOverloaded", "RateLimited", "RemoteError",
     "ConnectionUnavailable", "MalformedResponse"}

\* C9 as stated: every query_overpass call with retry_count >= 1 ends either
\* by returning the response of its last attempt or by failing with one of
\* Timeout, UpstreamOverloaded, RateLimited, RemoteError,
\* ConnectionUnavailable, MalformedResponse; exhausted attempts surface the
\* kind of the last failure; no failure is swallowed.
C9_SixErrorKinds ==
    (FetchDone /\ retry_count >= 1) =>
        /\ Len(outcomes) >= 1
        /\ LET last == outcomes[Len(outcomes)] IN
           /\ \/ result.tag = "return" /\ last.exc = "None" /\ result.data = last.body
              \/ result.tag = "raise" /\ ErrorKind(result.msg) \in SixKinds
           /\ (Len(outcomes) = retry_count /\ IsTimeout(last)) => Failed("Timeout")
           /\ (Len(outcomes) = retry_count /\ IsStatus(last, 504)) => Failed("UpstreamOverloaded")
           /\ (Len(outcomes) = retry_count /\ IsStatus(last, 429)) => Failed("RateLimited")

\* C9 (amended): every query_overpass call with retry_count >= 1 ends either
\* by returning the parsed body of its last attempt, which raised nothing, or
\* by failing with the error of its last attempt's failure: one of the six
\* kinds, or the generic "Error querying Overpass API" error when the request
\* raised an exception none of the specific except clauses catches; exhausted
\* attempts surface the kind of the last failure; no failure is swallowed.
C9_SevenErrorKinds ==
    (FetchDone /\ retry_count >= 1) =>
        /\ Len(outcomes) >= 1
        /\ LET last == outcomes[Len(outcomes)] IN
           /\ result.tag \in {"return", "raise"}
           /\ result.tag = "return" =>
                (~IsFailure(last) /\ result.data = last.body /\ result.data \in JsonBodies)
           /\ result.tag = "raise" =>
                /\ IsFailure(last)
                /\ ErrorKind(result.msg) = ExpectedKind(last)
                /\ ErrorKind(result.msg) \in SixKinds \cup {"Generic"}
                /\ ErrorKind(result.msg) = "Generic" <=> last.exc = "RequestException"
           /\ IsFailure(last) => result.tag = "raise"

C9_Witness ==
    /\ FetchDone /\ retry_count = 3 /\ Len(outcomes) = 3
    /\ IsTimeout(outcomes[1]) /\ IsStatus(outcomes[2], 504)
    /\ outcomes[3].exc = "RequestException"
    /\ Failed("Generic")

\* C10: query_overpass always terminates with bounded retries: whatever the
\* outcomes of its attempts, it issues at most retry_count requests, sleeps
\* at most retry_count - 1 times, has at most one request in flight at any
\* time, and a call that has started ends.
C10_Bounds ==
    (Fetching /\ retry_count >= 1) =>
        /\ requests <= retry_count
        /\ Len(sleeps) <= retry_count - 1
        /\ Len(outcomes) <= retry_count
        /\ inflight <= 1
        /\ inflight = requests - Len(outcomes)

C10_BoundedRetries == [](C10_Bounds) /\ (Fetching ~> FetchDone)

C10_Witness ==
    /\ FetchDone /\ retry_count = 3 /\ requests = 3 /\ Len(sleeps) = 2
    /\ IsStatus(outcomes[1], 429) /\ IsTimeout(outcomes[2]) /\ IsStatus(outcomes[3], 504)

----------------------------------------------------------------------------
(* Properties of the parser *)

Parsed == parse_op # "none"
BatchParsed == parse_op = "parse_batch_features"

\* an element whose coordinates can be determined
Locatable(el) ==
    \/ el.type = "node" /\ el.lat # PyNone /\ el.lon # PyNone
    \/ el.type = "way" /\ el.hasCenter /\ el.center.lat # PyNone /\ el.center.lon # PyNone

\* the elements a feature is due for, in input order
Kept == SelectSeq(api_response.elements, Locatable)

\* the tag mapping of an element, empty when it has none
TagsOf(el) == IF el.hasTags THEN el.tags ELSE EmptyTags

\* C11: parse_features returns an empty sequence when the response has no
\* top-level `elements` key and when `elements` is an empty list.
C11_EmptyResponse ==
    (parse_op = "parse_features"
        /\ (~api_response.hasElements \/ api_response.elements = <<>>))
    => features = <<>>

C11_Witness ==
    /\ parse_op = "parse_features"
    /\ ~api_response.hasElements
    /\ features = <<>>

\* C12: parse_features outputs exactly one feature, in input order, for each
\* element that is a node with lat and lon or a way whose center has lat and
\* lon, a node's coordinates being its own and a way's those of its center;
\* every other element is skipped.
C12_OneFeaturePerLocatable ==
    Parsed =>
        /\ Len(features) = Len(Kept)
        /\ \A i \in DOMAIN features :
             /\ features[i].lat = IF Kept[i].type = "node" THEN Kept[i].lat
                                  ELSE Kept[i].center.lat
             /\ features[i].lon = IF Kept[i].type = "node" THEN Kept[i].lon
                                  ELSE Kept[i].center.lon
             /\ features[i].tags = TagsOf(Kept[i])

C12_Witness ==
    /\ parse_op = "parse_features"
    /\ Len(api_response.elements) = 2
    /\ api_response.elements[1].type = "relation"
    /\ api_response.elements[2].type = "way"
    /\ api_response.elements[2].lat = PyNone
    /\ Len(features) = 1
    /\ features[1].lat = "1" /\ features[1].lon = "2"

\* the value of the first of the keys that the tags hold, "unknown" when
\* they hold none
RECURSIVE FirstPresent(_, _)
FirstPresent(keys, tags) ==
    IF keys = <<>> THEN "unknown"
    ELSE IF tags[Head(keys)] # PyNone THEN tags[Head(keys)]
    ELSE FirstPresent(Tail(keys), tags)

\* C13 as stated: the type of every feature is the value of the first tag key
\* present among amenity, shop, tourism, railway, man_made, power, landuse,
\* healthcare, in that order, and "unknown" when none of them is present.
C13_TypeIsFirstPresentKey ==
    Parsed =>
        \A i \in DOMAIN features :
            features[i].type =
                FirstPresent(<<"amenity", "shop", "tourism", "railway", "man_made",
                               "power", "landuse", "healthcare">>, features[i].tags)

\* the value of the first of the keys that the tags hold with a value that
\* is not empty, "unknown" when there is none
RECURSIVE FirstNonEmpty(_, _)
FirstNonEmpty(keys, tags) ==
    IF keys = <<>> THEN "unknown"
    ELSE IF tags[Head(keys)] \notin {PyNone, ""} THEN tags[Head(keys)]
    ELSE FirstNonEmpty(Tail(keys), tags)

\* C13 (amended): the type of every feature is the value of the first tag key
\* among amenity, shop, tourism, railway, man_made, power, landuse,
\* healthcare, in that order, that is present with a non-empty value, and
\* "unknown" when none of them is.
C13_TypeIsFirstNonEmptyKey ==
    Parsed =>
        \A i \in DOMAIN features :
            features[i].type =
                FirstNonEmpty(<<"amenity", "shop", "tourism", "railway", "man_made",
                                "power", "landuse", "healthcare">>, features[i].tags)

C13_Witness ==
    /\ parse_op = "parse_features"
    /\ Len(features) = 1
    /\ features[1].tags = MakeTags({<<"amenity", "school">>, <<"shop", "supermarket">>})
    /\ features[1].type = "school"

\* C14: every feature has the name of the element's `name` tag, "Unnamed"
\* when the element has no `name` tag or no tags at all, and its tags are
\* the element's full tag mapping, empty when the element has none.
C14_NameAndTags ==
    (Parsed /\ Len(features) = Len(Kept)) =>
        \A i \in DOMAIN features :
            /\ features[i].name =
                 IF Kept[i].hasTags /\ Kept[i].tags["name"] # PyNone
                 THEN Kept[i].tags["name"] ELSE "Unnamed"
            /\ features[i].tags = TagsOf(Kept[i])
            /\ ~Kept[i].hasTags => \A k \in TagKeys : features[i].tags[k] = PyNone

C14_Witness ==
    /\ parse_op = "parse_features"
    /\ Len(api_response.elements) = 1
    /\ api_response.elements[1].type = "node"
    /\ api_response.elements[1].tags = MakeTags({<<"amenity", "cafe">>})
    /\ Len(features) = 1
    /\ features[1].type = "cafe" /\ features[1].name = "Unnamed"
    /\ features[1].lat = "10" /\ features[1].lon = "20"

\* the table in its iteration order: the risk zones, then the vulnerable
\* populations, each in declared order
TableOrder == RISK_ZONES \o VULNERABLE_POPULATIONS

\* the places of the table whose pair the tags hold
MatchingEntries(table, tags) ==
    {i \in DOMAIN table : tags[table[i].key] = table[i].value}

Smallest(S) == CHOOSE i \in S : \A j \in S : i <= j

\* the buckets a feature is in
BucketsHolding(f) ==
    {b \in DOMAIN categorized :
        \E j \in DOMAIN categorized[b].features : categorized[b].features[j] = f}

\* C15: in the result of parse_batch_features every parsed feature is in at
\* most one bucket, the one of the first entry in the table's iteration order
\* (risk zones, then vulnerable populations) whose pair the feature's tags
\* hold; a feature that matches a risk-zone pair and a vulnerable-population
\* pair is under the risk-zone category only.
C15_FirstMatchingCategory ==
    BatchParsed =>
        /\ \A b, c \in DOMAIN categorized :
             categorized[b].category = categorized[c].category => b = c
        /\ \A i \in DOMAIN features :
             LET f == features[i]
                 m == MatchingEntries(TableOrder, f.tags)
             IN /\ Cardinality(BucketsHolding(f)) <= 1
                /\ m = {} => BucketsHolding(f) = {}
                /\ m # {} =>
                     \E b \in DOMAIN categorized :
                        /\ BucketsHolding(f) = {b}
                        /\ categorized[b].category = TableOrder[Smallest(m)].name
                /\ (MatchingEntries(RISK_ZONES, f.tags) # {}
                      /\ MatchingEntries(VULNERABLE_POPULATIONS, f.tags) # {})
                   => \A b \in BucketsHolding(f) :
                        \E r \in DOMAIN RISK_ZONES :
                            categorized[b].category = RISK_ZONES[r].name

C15_Witness ==
    /\ BatchParsed
    /\ Len(features) = 1
    /\ features[1].tags = MakeTags({<<"man_made", "works">>, <<"amenity", "school">>})
    /\ Len(categorized) = 1
    /\ categorized[1].category = "factory"

\* the category of a feature: the name of the first matching entry
CategoryOf(f) ==
    LET m == MatchingEntries(TableOrder, f.tags) IN
    IF m = {} THEN PyNone ELSE TableOrder[Smallest(m)].name

RECURSIVE SumOfSizes(_)
SumOfSizes(cats) ==
    IF cats = <<>> THEN 0 ELSE Len(Head(cats).features) + SumOfSizes(Tail(cats))

\* C16: parse_batch_features drops exactly the flat-parsed features that
\* match no table pair: no bucket is empty, the bucket sizes sum to the number
\* of flat-parsed features that match some pair, and each bucket holds its
\* features in flat-parse order.
C16_DropsUnmatched ==
    BatchParsed =>
        /\ \A b \in DOMAIN categorized :
             /\ categorized[b].features # <<>>
             /\ categorized[b].features =
                  SelectSeq(features, LAMBDA f : CategoryOf(f) = categorized[b].category)
        /\ SumOfSizes(categorized)
             = Len(SelectSeq(features, LAMBDA f : CategoryOf(f) # PyNone))
        /\ \A i \in DOMAIN features :
             CategoryOf(features[i]) # PyNone =>
                \E b \in DOMAIN categorized :
                    categorized[b].category = CategoryOf(features[i])

C16_Witness ==
    /\ BatchParsed
    /\ Len(features) = 2
    /\ features[1].tags = MakeTags({<<"amenity", "school">>})
    /\ features[2].tags = MakeTags({<<"amenity", "cafe">>})
    /\ Len(categorized) = 1
    /\ categorized[1].category = "school"
    /\ Len(categorized[1].features) = 1

----------------------------------------------------------------------------
(* Properties of the query builder *)

\* the names of the category table
TableNames == {TableOrder[i].name : i \in DOMAIN TableOrder}

\* the (key, value) pair the table gives a name
TablePair(name) ==
    LET i == CHOOSE j \in DOMAIN TableOrder : TableOrder[j].name = name
    IN <<TableOrder[i].key, TableOrder[i].value>>

\* the pair a category resolves to
Resolved(t) ==
    IF LowerTable[t] \in TableNames THEN TablePair(LowerTable[t])
    ELSE <<"amenity", LowerTable[t]>>

\* statement st is an `elem` statement with this pair and the bounds of bbox in
\* the order south, west, north, east
IsStatement(st, elem, pair, bbox) ==
    /\ st.elem = elem
    /\ st.key = pair[1] /\ st.value = pair[2]
    /\ Len(st.bounds) = 4
    /\ \A i \in 1..4 : st.bounds[i] = bbox[i]

\* C17: for every bbox and every category whose lowercased name is a key of
\* the category table, whatever its letter case, build_query emits one node
\* statement and one way statement, each with the table's pair of that
\* category and the four bounds in the order south, west, north, east, and
\* asks for the centre of ways.
C17_KnownCategoryQuery ==
    (build_op = "build_query" /\ LowerTable[build_args.poi_types[1]] \in TableNames)
    => /\ Len(query.statements) = 2
       /\ IsStatement(query.statements[1], "node",
                      TablePair(LowerTable[build_args.poi_types[1]]), build_args.bbox)
       /\ IsStatement(query.statements[2], "way",
                      TablePair(LowerTable[build_args.poi_types[1]]), build_args.bbox)
       /\ query.out = "center"

C17_Witness ==
    /\ build_op = "build_query"
    /\ build_args.poi_types = <<"Gas Station">>
    /\ build_args.bbox = <<10, 20, 20, 10>>
    /\ query.statements[1].key = "amenity" /\ query.statements[1].value = "fuel"
    /\ query.statements[2].bounds = <<10, 20, 20, 10>>

\* C18: a category whose lowercased name is no key of the table resolves, in
\* build_query and in build_batch_query, to ("amenity", lowercase(category));
\* build_batch_query emits, for each requested category in request order, a
\* node and a way statement with the category's resolved pair and the bbox.
C18_FallbackAndBatchOrder ==
    /\ (build_op = "build_query" /\ LowerTable[build_args.poi_types[1]] \notin TableNames)
       => /\ Len(query.statements) = 2
          /\ IsStatement(query.statements[1], "node",
                         <<"amenity", LowerTable[build_args.poi_types[1]]>>, build_args.bbox)
          /\ IsStatement(query.statements[2], "way",
                         <<"amenity", LowerTable[build_args.poi_types[1]]>>, build_args.bbox)
    /\ build_op = "build_batch_query"
       => /\ Len(query.statements) = 2 * Len(build_args.poi_types)
          /\ \A i \in DOMAIN build_args.poi_types :
               /\ IsStatement(query.statements[2 * i - 1], "node",
                              Resolved(build_args.poi_types[i]), build_args.bbox)
               /\ IsStatement(query.statements[2 * i], "way",
                              Resolved(build_args.poi_types[i]), build_args.bbox)
               /\ LowerTable[build_args.poi_types[i]] \notin TableNames
                  => /\ query.statements[2 * i].key = "amenity"
                     /\ query.statements[2 * i].value = LowerTable[build_args.poi_types[i]]

C18_Witness ==
    /\ build_op = "build_batch_query"
    /\ build_args.poi_types = <<"Cafe", "school">>
    /\ Len(query.statements) = 4
    /\ query.statements[1].value = "cafe" /\ query.statements[3].value = "school"

\* the categories a batch can be asked for that the table does not name
FallbackTypes == {t \in PoiTypes : lower(t) \notin TableNames}

\* feature f holds the pair and no pair of the table
MatchesOnly(f, pair) ==
    /\ f.tags[pair[1]] = pair[2]
    /\ MatchingEntries(TableOrder, f.tags) = {}

\* C23: the keys of the result of parse_batch_features are names of the
\* category table, whatever categories the batch query was built for: for a
\* category outside the table, which the builder resolves to
\* amenity=<lowercased name>, there is no bucket of its name, and the features
\* that hold only its fallback pair are in no bucket.
C23_BucketsAreTableNames ==
    BatchParsed =>
        /\ \A b \in DOMAIN categorized : categorized[b].category \in TableNames
        /\ \A t \in FallbackTypes :
             /\ TagPairOf(t) = <<"amenity", lower(t)>>
             /\ \A b \in DOMAIN categorized : categorized[b].category \notin {t, lower(t)}
             /\ \A i \in DOMAIN features :
                  MatchesOnly(features[i], TagPairOf(t)) => BucketsHolding(features[i]) = {}

\* an amenity=cafe element, which the statements built for "Cafe" select, next
\* to a school: one bucket, the school's
C23_Witness ==
    /\ BatchParsed
    /\ "Cafe" \in FallbackTypes
    /\ Len(features) = 2
    /\ MatchesOnly(features[1], TagPairOf("Cafe"))
    /\ Len(categorized) = 1
    /\ categorized[1].category = "school"
    /\ categorized[1].features = <<features[2]>>

----------------------------------------------------------------------------
(* The retry loop over mixed failures *)

\* a failure query_overpass retries: a request timeout, a 504, a 429
Retryable(o) == IsTimeout(o) \/ IsStatus(o, 504) \/ IsStatus(o, 429)

\* seconds per attempt number the spec gives the kind of a retried failure
WaitFactor(o) ==
    IF IsTimeout(o) THEN 2 ELSE IF IsStatus(o, 504) THEN 3 ELSE 5

\* the error kind the spec gives the kind of a retried failure
KindOfFailure(o) ==
    IF IsTimeout(o) THEN "Timeout"
    ELSE IF IsStatus(o, 504) THEN "UpstreamOverloaded" ELSE "RateLimited"

\* C20: timeouts, 504s and 429s share the attempt counter of query_overpass.
\* For any mix of them over the attempts, the requests never exceed
\* retry_count, every failed attempt k < retry_count is followed by a wait
\* of 2*k, 3*k or 5*k seconds according to attempt k's own failure, no wait
\* follows attempt retry_count, and the error raised on exhaustion is the
\* kind of the last attempt's failure.
C20_SharedAttemptCounter ==
    (Fetching /\ \A i \in DOMAIN outcomes : Retryable(outcomes[i]))
    => /\ requests <= (IF retry_count > 0 THEN retry_count ELSE 0)
       /\ retry_count >= 1 =>
            /\ Len(sleeps) = IF Len(outcomes) < retry_count
                             THEN Len(outcomes) ELSE retry_count - 1
            /\ \A k \in DOMAIN sleeps :
                  sleeps[k] = [after |-> k, wait |-> WaitFactor(outcomes[k]) * k]
            /\ pc = "done" =>
                  /\ requests = retry_count
                  /\ Len(outcomes) = retry_count
                  /\ Failed(KindOfFailure(outcomes[retry_count]))

C20_Witness ==
    /\ FetchDone /\ retry_count = 3 /\ requests = 3 /\ Len(outcomes) = 3
    /\ IsStatus(outcomes[1], 429) /\ IsTimeout(outcomes[2]) /\ IsStatus(outcomes[3], 504)
    /\ sleeps = <<[after |-> 1, wait |-> 5], [after |-> 2, wait |-> 4]>>
    /\ Failed("UpstreamOverloaded")

\* C21: query_overpass called with retry_count <= 0 issues no request, does
\* not sleep, raises nothing and returns None; the call is over at once.
C21_NoAttemptsReturnsNone ==
    (Fetching /\ retry_count <= 0)
    => /\ pc = "done"
       /\ requests = 0
       /\ inflight = 0
       /\ sleeps = <<>>
       /\ outcomes = <<>>
       /\ result = ReturnNone

C21_Witness ==
    /\ FetchDone
    /\ retry_count < 0
    /\ requests = 0
    /\ result.tag = "return" /\ result.data = "None"

----------------------------------------------------------------------------
(* The dialog *)

\* A download_pois run that got past the bbox check and the category check
\* has ended.
RunEnded == dpc = "idle" /\ selected # <<>>

\* The ready state reset_ui sets
UiReady ==
    /\ ~progress_visible
    /\ progress_value = 0
    /\ download_enabled

\* C19: every download_pois run that gets past the bbox check and the
\* category check ends, on success, on "No Results" and on an error, with
\* the progress bar hidden at value 0 and the download button enabled.
C19_RunEndsWithUiReset == RunEnded => UiReady

\* the first k calls of a run that asks for its categories one by one
CallsPerCategory(box, cats, k) ==
    [i \in 1..k |-> CallOf("query_overpass", box, <<cats[i]>>)]

\* C22: a run takes the batch path exactly when three or more categories
\* are selected, and the batch call posts one request whatever its outcome.
\* With one or two categories the run calls query_overpass with three
\* attempts at most, once per category in selection order, sleeps 2 seconds
\* before every category but the first, and makes no call after the first
\* one that fails.
C22_BatchFromThreeCategories ==
    selected # <<>> =>
        IF Len(selected) >= 3
        THEN /\ run_calls = <<CallOf("query_overpass_batch", self_bbox, selected)>>
             /\ fn \in {"none", "query_overpass_batch"}
             /\ run_pauses = 0
             /\ sleeps = <<>>
             /\ requests <= 1
             /\ Len(run_results) <= 1
             /\ \A k \in DOMAIN run_results : run_results[k].requests = 1
             /\ RunEnded <=> Len(run_results) = 1
        ELSE /\ Len(run_calls) \in 1..Len(selected)
             /\ run_calls = CallsPerCategory(self_bbox, selected, Len(run_calls))
             /\ fn \in {"none", "query_overpass"}
             /\ fn = "query_overpass" => retry_count = 3
             /\ run_pauses = Len(run_calls) - 1
             /\ requests <= 3
             /\ Len(run_results) \in {Len(run_calls) - 1, Len(run_calls)}
             /\ \A k \in DOMAIN run_results :
                   /\ run_results[k].requests \in 1..3
                   /\ run_results[k].tag = "raise" =>
                         /\ k = Len(run_calls)
                         /\ RunEnded
                         /\ message = "Error"
             /\ RunEnded <=>
                   /\ Len(run_results) = Len(run_calls)
                   /\ \/ Len(run_calls) = Len(selected)
                      \/ run_results[Len(run_results)].tag = "raise"

\* the first of two categories fails on its third attempt and the second is
\* never asked for
C22_Witness ==
    /\ RunEnded
    /\ selected = <<"factory", "school">>
    /\ run_calls = <<CallOf("query_overpass", self_bbox, <<"factory">>)>>
    /\ run_results = <<[tag |-> "raise", requests |-> 3]>>
    /\ run_pauses = 0

\* the state of the dialog and of its requests, the message box apart
DialogState ==
    <<self_bbox, visible, map_tool_set, download_enabled, export_enabled, progress_visible,
      progress_value, stats_visible, label_status, current_layers, runVars, fetchVars>>

DownloadNeedsArea == download_enabled => self_bbox # <<>>

\* a download_pois step taken with no bbox or with no category ticked
RejectedDownload ==
    \E checked \in CheckedSets :
        /\ download_pois(checked)
        /\ self_bbox = <<>> \/ get_selected_categories(checked) = <<>>

\* C24: whatever the order in which select_area, on_area_selected and
\* download_pois are called, the download button is enabled only while a
\* bbox is set, and download_pois with no bbox or with no category selected
\* posts no request and leaves the dialog's state as it was, the warning it
\* shows apart.
C24_DownloadGuarded ==
    /\ [](DownloadNeedsArea)
    /\ [][RejectedDownload => UNCHANGED DialogState]_vars

\* download_pois called before any area was selected
C24_Witness ==
    /\ message = "No Area Selected"
    /\ self_bbox = <<>>
    /\ ~download_enabled
    /\ dpc = "idle"
    /\ requests = 0 /\ run_calls = <<>>

\* the run ended in the except clause
RunFailed == RunEnded /\ run_results[Len(run_results)].tag = "raise"

\* the categories of the layers in a created_layers list
CategoriesOf(layers) == [k \in DOMAIN layers |-> layers[k].category]

\* What a run does to current_layers and to the export button, from its
\* start on
RunKeepsOrReplacesLayers ==
    selected # <<>> =>
        /\ dpc = "running" => current_layers = layers_before /\ ~export_enabled
        /\ (RunFailed \/ (RunEnded /\ created_layers = <<>>)) =>
              current_layers = layers_before /\ ~export_enabled
        /\ (RunEnded /\ ~RunFailed /\ created_layers # <<>>) =>
              current_layers = CategoriesOf(created_layers) /\ export_enabled

\* a step that gives current_layers another value or enables the export
\* button
LayersOrExportChange ==
    \/ current_layers' # current_layers
    \/ ~export_enabled /\ export_enabled'

\* the last step of a run that created a layer and did not fail
RunCreatedLayers ==
    /\ dpc = "running" /\ dpc' = "idle"
    /\ created_layers' # <<>>
    /\ run_results'[Len(run_results')].tag = "return"

\* C25: a download_pois run that ends in an error or creates no layer
\* leaves current_layers as it was before the run, also when the run had
\* added layers of earlier categories to the project, and leaves the export
\* button disabled; current_layers is replaced and the export button enabled
\* again only by a run that created at least one layer.
C25_LayersKeptUnlessCreated ==
    /\ [](RunKeepsOrReplacesLayers)
    /\ [][LayersOrExportChange => RunCreatedLayers]_vars

\* after a run that made a school layer, a run over factory and school adds
\* the factory layer to the project and fails on school
C25_Witness ==
    /\ RunFailed
    /\ selected = <<"factory", "school">>
    /\ layers_before = <<"school">>
    /\ CategoriesOf(project_layers) = <<"factory">>
    /\ current_layers = <<"school">>
    /\ ~export_enabled

----------------------------------------------------------------------------
(* The map tool *)

LeftPress(i) == events[i].kind = "press" /\ events[i].button = "Left"
LeftRelease(i) == events[i].kind = "release" /\ events[i].button = "Left"

\* among the first n events there is a left press with no left release
\* after it
PressOpen(n) ==
    \E j \in 1..n : LeftPress(j) /\ \A k \in (j + 1)..n : ~LeftRelease(k)

\* the left releases that follow a left press with no other left release in
\* between
CompletingReleases == {i \in DOMAIN events : LeftRelease(i) /\ PressOpen(i - 1)}

\* the last left press before event i
LastLeftPress(i) ==
    CHOOSE j \in 1..(i - 1) : LeftPress(j) /\ \A k \in (j + 1)..(i - 1) : ~LeftPress(k)

\* C26: whatever the sequence of press, move and release events,
\* areaSelected is emitted exactly once for each left-button release that
\* follows a left-button press with no other left release in between, in the
\* handling of that release, and never otherwise; isDrawing is true exactly
\* from a left press to the next left release.
C26_OneEmissionPerDrag ==
    /\ {emitted[k].at : k \in DOMAIN emitted} = CompletingReleases
    /\ \A k, l \in DOMAIN emitted : k < l => emitted[k].at < emitted[l].at
    /\ \A k \in DOMAIN emitted :
          emitted[k].rect = Rectangle(events[LastLeftPress(emitted[k].at)].point,
                                      events[emitted[k].at].point)
    /\ isDrawing <=> PressOpen(Len(events))

\* a left release with no press before it, a drag with a second press in
\* it, the release that ends it: one emission, at the fourth event
C26_Witness ==
    /\ Len(events) = 4
    /\ events[1].kind = "release" /\ events[1].button = "Left"
    /\ LeftPress(2) /\ LeftPress(3) /\ LeftRelease(4)
    /\ Len(emitted) = 1
    /\ emitted[1].at = 4
    /\ ~isDrawing
====
